---- MODULE Spec2Model ----
(***************************************************************************)
(* Line-following core (src/lf/lf_core.py) and its driver script           *)
(* (src/lf/lf_runner.py): pixel graph, trunk, branches, route splitting    *)
(* for N agents, route joining and the drone-route feature collection.     *)
(*                                                                         *)
(* Conventions.  A point is a pair <<a, b>> of integers.  A route is a     *)
(* sequence of points.  Python lists are 0-based, sequences here are       *)
(* 1-based: list index i is sequence index i + 1.  A bucket holds the      *)
(* indices of the routes appended to it (buckets[k].append(routes[idx])    *)
(* appends a reference to routes[idx]); BucketRoutes gives the routes.     *)
(* Lengths are exact: every route the model draws has axis-parallel        *)
(* segments, whose Euclidean length is an integer.                         *)
(***************************************************************************)
EXTENDS Integers, Sequences, FiniteSets, TLC

VARIABLES
    pc,          \* position of the running function
    routes,      \* split_routes_for_agents: argument routes
    n_agents,    \* split_routes_for_agents: argument n_agents
    lengths,     \* split_routes_for_agents: local lengths
    order,       \* split_routes_for_agents: local order
    buckets,     \* split_routes_for_agents: local buckets (route indices)
    bucket_len,  \* split_routes_for_agents: local bucket_len
    pos,         \* split_routes_for_agents: position of the for loop in order
    drone_routes,\* value returned by split_routes_for_agents
    route_list,  \* join_routes_for_agent: argument route_list
    coords,      \* join_routes_for_agent: local coords
    seg_i,       \* join_routes_for_agent: position of the for loop in route_list
    mask,        \* lf_runner: the binary mask
    skel,        \* skeleton_to_graph: argument skel
    connectivity,\* skeleton_to_graph: argument connectivity
    G,           \* skeleton_to_graph: local G, then the graph it returned
    gi,          \* skeleton_to_graph: position of the second loop over the cells
    tG,          \* find_trunk_longest_path: its local G, the bridged copy
    endpoints,   \* find_trunk_longest_path: endpoints
    ti,          \* find_trunk_longest_path: position of the loop over endpoints
    lengths_lv,  \* find_trunk_longest_path: lengths, as level sets by hop count
    best_path,   \* find_trunk_longest_path: best_path, <<>> for None
    trunk,       \* the path find_trunk_longest_path returned
    min_len,     \* extract_branches: argument min_len
    branches,    \* extract_branches: local branches
    visited_edges, \* extract_branches: local visited_edges
    vi,          \* extract_branches: position of "for v in trunk"
    nbi,         \* extract_branches: position of "for nb in G.neighbors(v)"
    stack,       \* _branch_paths_from_root: local stack
    paths,       \* _branch_paths_from_root: local paths
    features,    \* build_drone_routes_geojson: local features
    bkt_i        \* build_drone_routes_geojson: position of the for loop

splitVars == <<routes, n_agents, lengths, order, buckets, bucket_len, pos, drone_routes>>
joinVars == <<route_list, coords, seg_i>>
trunkVars == <<tG, endpoints, ti, lengths_lv, best_path>>
graphVars == <<mask, skel, connectivity, G, gi, trunkVars, trunk, min_len>>
branchVars == <<branches, visited_edges, vi, nbi, stack, paths>>
geoVars == <<features, bkt_i>>
vars == <<pc, splitVars, joinVars, graphVars, branchVars, geoVars>>

-----------------------------------------------------------------------------
(* Bounds of the model *)

MaxRoutes == 5   \* longest route list given to split_routes_for_agents
MaxLen == 3      \* longest route given to split_routes_for_agents
MaxAgents == 2   \* largest agent count
MaxSegs == 3     \* longest route list given to join_routes_for_agent
MaxPts == 2      \* most points of a route given to join_routes_for_agent
MaxCells == 9    \* most cells of a skeleton array given to skeleton_to_graph
MaxCornerDim == 4 \* largest height and width of a 4-corner array
MaxMaskCells == 4 \* most cells of a mask given to lf_runner
SmallMinLen == 2 \* a min_len small enough for the branches of small arrays
TBarLen == 30    \* pixels of the bar of a T-shaped skeleton
TArmLong == 20   \* pixels of the long arm of a T-shaped skeleton
TArmShort == 10  \* pixels of the short arm of a T-shaped skeleton
ForkBarLen == 9  \* pixels of the bar of a forked skeleton
MaxTermCells == 6 \* cells of the arrays the termination of extract_branches is checked on
MaxGeoRoutes == 4 \* routes of an assignment given to build_drone_routes_geojson

\* extract_branches(G, trunk, min_len: int = 15)
DefaultMinLen == 15

-----------------------------------------------------------------------------
(* Generic helpers *)

Range(s) == {s[i] : i \in 1..Len(s)}

RECURSIVE SumSeq(_)
SumSeq(s) == IF s = <<>> THEN 0 ELSE s[1] + SumSeq(Tail(s))

SeqsUpTo(S, n) == UNION {[1..k -> S] : k \in 0..n}

MaxOf(S) == CHOOSE x \in S : \A y \in S : y <= x
MinOf(S) == CHOOSE x \in S : \A y \in S : x <= y

\* integer square root, rounded down: exact on the axis-parallel segments of
\* SplitPool
ISqrt(n) == CHOOSE r \in 0..n : r * r <= n /\ (r + 1) * (r + 1) > n

-----------------------------------------------------------------------------
(* Route length: LineString(r).length if len(r) >= 2 else 0.0 *)

SegLength(a, b) == ISqrt((a[1] - b[1]) * (a[1] - b[1]) + (a[2] - b[2]) * (a[2] - b[2]))

LineLength(r) == SumSeq([i \in 1..(Len(r) - 1) |-> SegLength(r[i], r[i + 1])])

RouteLength(r) == IF Len(r) >= 2 THEN LineLength(r) ELSE 0

-----------------------------------------------------------------------------
(* split_routes_for_agents *)

\* the order without reverse=True: shortest first
SortedAscFirst(ls) ==
    LET n == Len(ls)
        before(i, j) == ls[i] < ls[j] \/ (ls[i] = ls[j] /\ i < j)
        rank(i) == Cardinality({j \in 1..n : before(j, i)}) + 1
    IN [r \in 1..n |-> CHOOSE i \in 1..n : rank(i) = r]

\* sorted(range(n), key=lambda i: lengths[i], reverse=True): a stable sort,
\* so equal lengths keep their input order
SortedDesc(ls) ==
    LET n == Len(ls)
        before(i, j) == ls[i] > ls[j] \/ (ls[i] = ls[j] /\ i < j)
        rank(i) == Cardinality({j \in 1..n : before(j, i)}) + 1
    IN [r \in 1..n |-> CHOOSE i \in 1..n : rank(i) = r]

\* the last index of a minimum
LastArgMin(bl) ==
    CHOOSE k \in 1..Len(bl) :
        \A j \in 1..Len(bl) : bl[k] <= bl[j] /\ (j > k => bl[j] > bl[k])

\* min(range(m), key=lambda j: bucket_len[j]): the first index of a minimum
FirstArgMin(bl) ==
    CHOOSE k \in 1..Len(bl) :
        \A j \in 1..Len(bl) : bl[k] <= bl[j] /\ (j < k => bl[j] > bl[k])

\* max in the place of min
MaxBuckets(n, rs) == IF n >= Len(rs) THEN n ELSE Len(rs)

\* m = min(n_agents, len(routes))
NumBuckets(n, rs) == IF n <= Len(rs) THEN n ELSE Len(rs)

\* the routes a bucket of indices stands for
BucketRoutes(b) == [i \in 1..Len(b) |-> routes[b[i]]]

\* lines 193-205: the early return, m, lengths, order, the empty buckets
SplitEnter ==
    /\ pc = "split_call"
    /\ IF routes = <<>> \/ n_agents <= 0
       THEN /\ drone_routes' = <<>>
            /\ pc' = "split_done"
            /\ UNCHANGED <<lengths, order, buckets, bucket_len, pos>>
       ELSE /\ lengths' = [i \in 1..Len(routes) |-> RouteLength(routes[i])]
            /\ order' = SortedDesc(lengths')
            /\ buckets' = [k \in 1..NumBuckets(n_agents, routes) |-> <<>>]
            /\ bucket_len' = [k \in 1..NumBuckets(n_agents, routes) |-> 0]
            /\ pos' = 1
            /\ pc' = "split_loop"
            /\ UNCHANGED drone_routes
    /\ UNCHANGED <<routes, n_agents, joinVars, graphVars, branchVars, geoVars>>

\* lines 207-210: one iteration of the for loop over order
SplitPlace ==
    /\ pc = "split_loop"
    /\ pos <= Len(order)
    /\ LET idx == order[pos]
           k == FirstArgMin(bucket_len)
       IN /\ buckets' = [buckets EXCEPT ![k] = Append(@, idx)]
          /\ bucket_len' = [bucket_len EXCEPT ![k] = @ + lengths[idx]]
    /\ pos' = pos + 1
    /\ UNCHANGED <<pc, routes, n_agents, lengths, order, drone_routes, joinVars,
                 graphVars, branchVars, geoVars>>

\* line 212: return buckets
SplitReturn ==
    /\ pc = "split_loop"
    /\ pos > Len(order)
    /\ drone_routes' = buckets
    /\ pc' = "split_done"
    /\ UNCHANGED <<routes, n_agents, lengths, order, buckets, bucket_len, pos, joinVars,
                 graphVars, branchVars, geoVars>>

-----------------------------------------------------------------------------
(* join_routes_for_agent *)

RECURSIVE Concat(_)
Concat(ss) == IF ss = <<>> THEN <<>> ELSE ss[1] \o Concat(Tail(ss))

\* a join that drops the first point of every route after the first
JoinSegAlwaysSkipFirst(cs, seg) ==
    IF Len(seg) < 2 THEN cs
    ELSE IF cs = <<>> THEN cs \o seg
    ELSE cs \o Tail(seg)

\* lines 221-231: one iteration of the for loop over route_list
JoinSeg(cs, seg) ==
    IF Len(seg) < 2 THEN cs
    ELSE IF cs = <<>> THEN cs \o seg
    ELSE IF cs[Len(cs)] # seg[1] THEN Append(cs, seg[1]) \o Tail(seg)
    ELSE cs \o Tail(seg)

\* the whole function, as build_drone_routes_geojson calls it
RECURSIVE JoinFrom(_, _)
JoinFrom(cs, rl) == IF rl = <<>> THEN cs ELSE JoinFrom(JoinSeg(cs, rl[1]), Tail(rl))

JoinRoutes(rl) == JoinFrom(<<>>, rl)

JoinStep ==
    /\ pc = "join_loop"
    /\ seg_i <= Len(route_list)
    /\ coords' = JoinSeg(coords, route_list[seg_i])
    /\ seg_i' = seg_i + 1
    /\ UNCHANGED <<pc, route_list, splitVars, graphVars, branchVars, geoVars>>

\* line 232: return coords
JoinReturn ==
    /\ pc = "join_loop"
    /\ seg_i > Len(route_list)
    /\ pc' = "join_done"
    /\ UNCHANGED <<route_list, coords, seg_i, splitVars, graphVars, branchVars, geoVars>>

-----------------------------------------------------------------------------
(* Skeleton and pixel graph: skeleton_to_graph                              *)
(* A skeleton is [h, w, on]: the shape of the array and the set of cells   *)
(* <<y, x>> (0-based) whose value is > 0.  A graph is [nodes, adj]: the     *)
(* nodes in insertion order and, per node, its neighbours in insertion     *)
(* order (the iteration order of G.nodes and of G.neighbors(n)).           *)

Skel(h, w, on) == [h |-> h, w |-> w, on |-> on]

\* skel[y, x] > 0, with numpy's wrap-around of a negative index
SkelOn(sk, y, x) ==
    /\ y >= -sk.h /\ y < sk.h /\ x >= -sk.w /\ x < sk.w
    /\ <<y % sk.h, x % sk.w>> \in sk.on

\* no test of the bounds at all
NoBoundsCheck(sk, y, x) == TRUE

\* line 56: 0 <= ny < h and 0 <= nx_ < w
InBounds(sk, y, x) == 0 <= y /\ y < sk.h /\ 0 <= x /\ x < sk.w

\* lines 39-45
Dirs4 == <<<<-1, 0>>, <<1, 0>>, <<0, -1>>, <<0, 1>>>>

Dirs8 == Dirs4 \o <<<<-1, -1>>, <<-1, 1>>, <<1, -1>>, <<1, 1>>>>

DirsOf(c) == IF c = 4 THEN Dirs4 ELSE Dirs8

\* ys, xs = np.where(skel > 0): the cells that are on, in row-major order
OnCells(sk) ==
    SelectSeq([i \in 1..(sk.h * sk.w) |-> <<(i - 1) \div sk.w, (i - 1) % sk.w>>],
              LAMBDA c : c \in sk.on)

EmptyGraph == [nodes |-> <<>>, adj |-> <<>>]

\* G.add_node(n): a node already in the graph keeps its place
AddNode(g, n) ==
    IF n \in Range(g.nodes) THEN g
    ELSE [nodes |-> Append(g.nodes, n),
          adj |-> [m \in Range(g.nodes) \cup {n} |-> IF m = n THEN <<>> ELSE g.adj[m]]]

\* G.add_edge(u, v): a node not yet in the graph is added, a neighbour
\* already present keeps its place
AddEdge(g, u, v) ==
    [AddNode(AddNode(g, u), v) EXCEPT
        !.adj[u] = IF v \in Range(@) THEN @ ELSE Append(@, v),
        !.adj[v] = IF u \in Range(@) THEN @ ELSE Append(@, u)]

HasEdge(g, u, v) == v \in Range(g.adj[u])

Degree(g, n) == Len(g.adj[n])

\* the undirected edges of a graph, each as a set of two nodes
EdgeSet(g) ==
    UNION {{{u, g.adj[u][i]} : i \in 1..Len(g.adj[u])} : u \in Range(g.nodes)}

\* lines 54-57: the directions of the cell c from the i-th onwards
RECURSIVE AddEdgesOfCell(_, _, _, _, _)
AddEdgesOfCell(g, sk, c, dirs, i) ==
    IF i > Len(dirs) THEN g
    ELSE LET ny == c[1] + dirs[i][1]
             nx == c[2] + dirs[i][2]
         IN AddEdgesOfCell(
                IF InBounds(sk, ny, nx) /\ SkelOn(sk, ny, nx)
                THEN AddEdge(g, c, <<ny, nx>>) ELSE g,
                sk, c, dirs, i + 1)

-----------------------------------------------------------------------------
(* Trunk: _dist, _bridge_endpoints, find_trunk_longest_path *)

\* max_dist = 2.5 = MaxDistNum / MaxDistDen
MaxDistNum == 5
MaxDistDen == 2

\* _dist(a, b) <= max_dist, on squares (both sides are >= 0)
WithinMaxDist(a, b) ==
    MaxDistDen * MaxDistDen *
        ((a[1] - b[1]) * (a[1] - b[1]) + (a[2] - b[2]) * (a[2] - b[2]))
    <= MaxDistNum * MaxDistNum

\* [n for n in G.nodes if G.degree(n) == 1]
Endpoints(g) == SelectSeq(g.nodes, LAMBDA n : Degree(g, n) = 1)

\* lines 75-80: the double loop from the pair (i, j) onwards
RECURSIVE BridgeFrom(_, _, _, _)
BridgeFrom(g, eps, i, j) ==
    IF i > Len(eps) THEN g
    ELSE IF j > Len(eps) THEN BridgeFrom(g, eps, i + 1, i + 2)
    ELSE BridgeFrom(
             IF WithinMaxDist(eps[i], eps[j]) /\ ~HasEdge(g, eps[i], eps[j])
             THEN AddEdge(g, eps[i], eps[j]) ELSE g,
             eps, i, j + 1)

\* lines 68-80, on a copy of G (line 87)
BridgeEndpoints(g) == BridgeFrom(g, Endpoints(g), 1, 2)

\* the nodes one hop beyond the frontier that were not reached before
NextLevel(g, frontier, seen) == (UNION {Range(g.adj[v]) : v \in frontier}) \ seen

\* every shortest path from u, a node of level i, to v, a node of level j,
\* i <= j: such a path visits one node of every level in between, so it is
\* put together from its two halves
RECURSIVE PathsBetween(_, _, _, _, _, _)
PathsBetween(g, lv, u, i, v, j) ==
    IF j = i THEN (IF u = v THEN {<<u>>} ELSE {})
    ELSE IF j = i + 1 THEN (IF v \in Range(g.adj[u]) THEN {<<u, v>>} ELSE {})
    ELSE LET mid == (i + j) \div 2
         IN UNION {{p \o Tail(q) : p \in PathsBetween(g, lv, u, i, m, mid),
                                   q \in PathsBetween(g, lv, m, mid, v, j)} :
                       m \in lv[mid]}

\* lines 36-50: the directions are DirsOf(connectivity); one node per cell
\* that is on
GraphEnter ==
    /\ pc = "graph_call"
    /\ G' = [nodes |-> OnCells(skel), adj |-> [n \in skel.on |-> <<>>]]
    /\ gi' = 1
    /\ pc' = "graph_loop"
    /\ UNCHANGED <<mask, skel, connectivity, trunkVars, trunk, min_len,
                   splitVars, joinVars, branchVars, geoVars>>

\* lines 53-57: one cell of the second loop, all its directions
GraphAddEdges ==
    /\ pc = "graph_loop"
    /\ gi <= Len(OnCells(skel))
    /\ G' = AddEdgesOfCell(G, skel, OnCells(skel)[gi], DirsOf(connectivity), 1)
    /\ gi' = gi + 1
    /\ UNCHANGED <<pc, mask, skel, connectivity, trunkVars, trunk, min_len,
                   splitVars, joinVars, branchVars, geoVars>>

\* line 59
GraphReturn ==
    /\ pc = "graph_loop"
    /\ gi > Len(OnCells(skel))
    /\ pc' = "trunk_call"
    /\ UNCHANGED <<graphVars, splitVars, joinVars, branchVars, geoVars>>

\* best_len: -1 as long as best_path is None
BestLen == IF best_path = <<>> THEN -1 ELSE Len(best_path)

\* lines 87-96 and 101-104: the bridged copy, its endpoints, and the source
\* of the first sweep: nodes[0] when there is no endpoint
TrunkEnter ==
    /\ pc = "trunk_call"
    /\ tG' = BridgeEndpoints(G)
    /\ endpoints' = Endpoints(tG')
    /\ ti' = 1
    /\ best_path' = <<>>
    /\ IF G.nodes = <<>>
       THEN /\ trunk' = <<>>
            /\ lengths_lv' = <<>>
            /\ pc' = "branch_call"
       ELSE /\ lengths_lv' = <<{IF endpoints' = <<>> THEN G.nodes[1] ELSE endpoints'[1]}>>
            /\ pc' = "sweep"
            /\ UNCHANGED trunk
    /\ UNCHANGED <<mask, skel, connectivity, G, gi, min_len,
                   splitVars, joinVars, branchVars, geoVars>>

\* nx.single_source_shortest_path_length(G, s) (lines 97, 105): one more
\* level of the breadth-first search
SweepLevel ==
    /\ pc = "sweep"
    /\ NextLevel(tG, lengths_lv[Len(lengths_lv)], UNION Range(lengths_lv)) # {}
    /\ lengths_lv' = Append(lengths_lv,
           NextLevel(tG, lengths_lv[Len(lengths_lv)], UNION Range(lengths_lv)))
    /\ UNCHANGED <<pc, mask, skel, connectivity, G, gi, min_len,
                   tG, endpoints, ti, best_path, trunk,
                   splitVars, joinVars, branchVars, geoVars>>

\* lines 98-99 and 106-110: t is a farthest node and path a shortest path to
\* it; which of several the library returns is left open, so all are
\* possible. Without endpoints the path is returned; otherwise it replaces
\* best_path only when strictly longer, and the loop goes on
SweepPath ==
    /\ pc = "sweep"
    /\ NextLevel(tG, lengths_lv[Len(lengths_lv)], UNION Range(lengths_lv)) = {}
    /\ \E s \in lengths_lv[1], t \in lengths_lv[Len(lengths_lv)] :
         \E path \in PathsBetween(tG, lengths_lv, s, 1, t, Len(lengths_lv)) :
            IF endpoints = <<>>
            THEN /\ trunk' = path
                 /\ pc' = "branch_call"
                 /\ UNCHANGED <<ti, best_path, lengths_lv>>
            ELSE /\ best_path' = IF Len(path) > BestLen THEN path ELSE best_path
                 /\ IF ti < Len(endpoints)
                    THEN /\ ti' = ti + 1
                         /\ lengths_lv' = <<{endpoints[ti + 1]}>>
                         /\ UNCHANGED pc
                    ELSE /\ pc' = "trunk_return"
                         /\ UNCHANGED <<ti, lengths_lv>>
                 /\ UNCHANGED trunk
    /\ UNCHANGED <<mask, skel, connectivity, G, gi, min_len, tG, endpoints,
                   splitVars, joinVars, branchVars, geoVars>>

\* line 112
TrunkReturn ==
    /\ pc = "trunk_return"
    /\ trunk' = best_path
    /\ pc' = "branch_call"
    /\ UNCHANGED <<mask, skel, connectivity, G, gi, min_len,
                   tG, endpoints, ti, best_path, lengths_lv,
                   splitVars, joinVars, branchVars, geoVars>>

-----------------------------------------------------------------------------
(* Branches: _branch_paths_from_root, extract_branches *)

\* the parent None of the root of a traversal: no node has a negative coordinate
NoNode == <<-1, -1>>

\* the pair as it comes, not sorted
UnsortedEdge(a, b) == <<a, b>>

\* tuple(sorted((a, b)))
SortedEdge(a, b) ==
    IF a[1] < b[1] \/ (a[1] = b[1] /\ a[2] <= b[2]) THEN <<a, b>> ELSE <<b, a>>

TrunkSet == Range(trunk)

\* the neighbours but the parent, trunk nodes among them
AllButParent(node, parent) ==
    SelectSeq(G.adj[node], LAMBDA nb : nb # parent)

\* lines 122-125
BranchNeighbors(node, parent) ==
    SelectSeq(G.adj[node], LAMBDA nb : nb # parent /\ ~(nb \in TrunkSet))

\* lines 131-136: the for loop over neighbors from its i-th element onwards,
\* on the pair <<visited_edges, stack>>
RECURSIVE PushFrom(_, _, _, _, _, _)
PushFrom(ve, st, node, path, nbs, i) ==
    IF i > Len(nbs) THEN <<ve, st>>
    ELSE LET e == SortedEdge(node, nbs[i])
         IN IF e \in ve
            THEN PushFrom(ve, st, node, path, nbs, i + 1)
            ELSE PushFrom(ve \cup {e},
                          Append(st, [node |-> nbs[i], parent |-> node,
                                      path |-> Append(path, nbs[i])]),
                          node, path, nbs, i + 1)

\* lines 146-148
BranchEnter ==
    /\ pc = "branch_call"
    /\ branches' = <<>>
    /\ visited_edges' = {}
    /\ vi' = 1
    /\ nbi' = 1
    /\ pc' = "branch_loop"
    /\ UNCHANGED <<stack, paths, graphVars, splitVars, joinVars, geoVars>>

\* lines 151-160: one neighbour nb of the trunk node v, up to the call of
\* _branch_paths_from_root (lines 116-117)
BranchNeighbor ==
    /\ pc = "branch_loop"
    /\ vi <= Len(trunk)
    /\ nbi <= Len(G.adj[trunk[vi]])
    /\ LET v == trunk[vi]
           nb == G.adj[v][nbi]
           e0 == SortedEdge(v, nb)
       IN IF nb \in TrunkSet \/ e0 \in visited_edges
          THEN /\ nbi' = nbi + 1
               /\ UNCHANGED <<pc, visited_edges, stack, paths>>
          ELSE /\ visited_edges' = visited_edges \cup {e0}
               /\ stack' = <<[node |-> nb, parent |-> NoNode, path |-> <<nb>>]>>
               /\ paths' = <<>>
               /\ pc' = "dfs_loop"
               /\ UNCHANGED nbi
    /\ UNCHANGED <<branches, vi, graphVars, splitVars, joinVars, geoVars>>

\* line 150: the neighbours of v are exhausted, on to the next trunk node
BranchNextNode ==
    /\ pc = "branch_loop"
    /\ vi <= Len(trunk)
    /\ nbi > Len(G.adj[trunk[vi]])
    /\ vi' = vi + 1
    /\ nbi' = 1
    /\ UNCHANGED <<pc, branches, visited_edges, stack, paths,
                   graphVars, splitVars, joinVars, geoVars>>

\* line 166
BranchReturn ==
    /\ pc = "branch_loop"
    /\ vi > Len(trunk)
    /\ pc' = "branch_done"
    /\ UNCHANGED <<branchVars, graphVars, splitVars, joinVars, geoVars>>

\* lines 119-136: one iteration of the while loop
DfsStep ==
    /\ pc = "dfs_loop"
    /\ stack # <<>>
    /\ LET top == stack[Len(stack)]
           rest == SubSeq(stack, 1, Len(stack) - 1)
           neighbors == BranchNeighbors(top.node, top.parent)
       IN IF neighbors = <<>>
          THEN /\ paths' = Append(paths, top.path)
               /\ stack' = rest
               /\ UNCHANGED visited_edges
          ELSE LET r == PushFrom(visited_edges, rest, top.node, top.path, neighbors, 1)
               IN /\ visited_edges' = r[1]
                  /\ stack' = r[2]
                  /\ UNCHANGED paths
    /\ UNCHANGED <<pc, branches, vi, nbi, graphVars, splitVars, joinVars, geoVars>>

\* every candidate [v] + p, whatever its length
KeepAll(v, ps, ml) == [i \in 1..Len(ps) |-> <<v>> \o ps[i]]

\* lines 161-164: the candidates [v] + p of at least min_len nodes
KeptBranches(v, ps, ml) ==
    SelectSeq([i \in 1..Len(ps) |-> <<v>> \o ps[i]], LAMBDA f : Len(f) >= ml)

\* line 138 and lines 161-164: the traversal returns its paths
DfsReturn ==
    /\ pc = "dfs_loop"
    /\ stack = <<>>
    /\ branches' = branches \o KeptBranches(trunk[vi], paths, min_len)
    /\ nbi' = nbi + 1
    /\ pc' = "branch_loop"
    /\ UNCHANGED <<visited_edges, vi, stack, paths, graphVars, splitVars, joinVars, geoVars>>

-----------------------------------------------------------------------------
(* lf_runner: the stages around the graph *)

\* skeletonize_mask: cv2.ximgproc.thinning only removes foreground pixels;
\* which ones is the library's, so every subset of the foreground is possible
Skeletonize ==
    /\ pc = "skeletonize"
    /\ \E on \in SUBSET mask.on : skel' = Skel(mask.h, mask.w, on)
    /\ pc' = "graph_call"
    /\ UNCHANGED <<mask, connectivity, G, gi, trunkVars, trunk, min_len,
                   splitVars, joinVars, branchVars, geoVars>>

\* px_to_world: a pure map applied point by point, (row, col) -> (x, y)
PxToWorld(node_list) == [i \in 1..Len(node_list) |-> <<node_list[i][2], node_list[i][1]>>]

\* the subsequence of cs at the indices of keep, in order
RECURSIVE Pick(_, _, _)
Pick(cs, keep, i) ==
    IF i > Len(cs) THEN <<>>
    ELSE (IF i \in keep THEN <<cs[i]>> ELSE <<>>) \o Pick(cs, keep, i + 1)

\* simplify_route: fewer than 3 points are returned as they are; otherwise
\* the simplified line keeps both ends and some of the points between them
\* (which ones is shapely's), or coords itself is returned
SimplifyChoices(cs) ==
    IF Len(cs) < 3 THEN {cs}
    ELSE {cs} \cup {Pick(cs, {1, Len(cs)} \cup mid, 1) : mid \in SUBSET (2..(Len(cs) - 1))}

\* lf_runner lines 26-33: routes = [trunk_s] + branches_s
ToRoutes ==
    /\ pc = "branch_done"
    /\ \E trunk_s \in SimplifyChoices(PxToWorld(trunk)) :
       \E branches_s \in [1..Len(branches) ->
                UNION {SimplifyChoices(PxToWorld(branches[i])) : i \in 1..Len(branches)}] :
          /\ \A i \in 1..Len(branches) : branches_s[i] \in SimplifyChoices(PxToWorld(branches[i]))
          /\ routes' = <<trunk_s>> \o branches_s
    /\ pc' = "split_call"
    /\ UNCHANGED <<n_agents, lengths, order, buckets, bucket_len, pos, drone_routes,
                   joinVars, graphVars, branchVars, geoVars>>

-----------------------------------------------------------------------------
(* build_drone_routes_geojson *)

\* line 246
GeoEnter ==
    /\ pc = "split_done"
    /\ features' = <<>>
    /\ bkt_i' = 1
    /\ pc' = "geojson_loop"
    /\ UNCHANGED <<splitVars, joinVars, graphVars, branchVars>>

\* a feature for every bucket, whatever its coordinates
EmitAlways(fs, idx, cs) ==
    Append(fs, [drone_id |-> idx, coordinates |-> cs])

\* lines 249-265: the features after the bucket of drone idx
Emit(fs, idx, cs) ==
    IF Len(cs) < 2 THEN fs
    ELSE Append(fs, [drone_id |-> idx, coordinates |-> cs])

\* lines 248-265: one iteration of the for loop (enumerate starts at 1)
GeoBucket ==
    /\ pc = "geojson_loop"
    /\ bkt_i <= Len(drone_routes)
    /\ features' = Emit(features, bkt_i, JoinRoutes(BucketRoutes(drone_routes[bkt_i])))
    /\ bkt_i' = bkt_i + 1
    /\ UNCHANGED <<pc, splitVars, joinVars, graphVars, branchVars>>

\* lines 267-270
GeoReturn ==
    /\ pc = "geojson_loop"
    /\ bkt_i > Len(drone_routes)
    /\ pc' = "geojson_done"
    /\ UNCHANGED <<splitVars, joinVars, graphVars, branchVars, geoVars>>

-----------------------------------------------------------------------------
(* Specifications *)

NoTrunk ==
    /\ tG = EmptyGraph /\ endpoints = <<>> /\ ti = 0
    /\ lengths_lv = <<>> /\ best_path = <<>>

NoSplit ==
    /\ routes = <<>> /\ n_agents = 0 /\ lengths = <<>> /\ order = <<>>
    /\ buckets = <<>> /\ bucket_len = <<>> /\ pos = 0
    /\ drone_routes = <<>>

NoJoin == route_list = <<>> /\ coords = <<>> /\ seg_i = 0

NoGraph ==
    /\ mask = Skel(0, 0, {}) /\ skel = Skel(0, 0, {}) /\ connectivity = 8
    /\ G = EmptyGraph /\ gi = 0 /\ NoTrunk /\ trunk = <<>> /\ min_len = DefaultMinLen

NoBranch ==
    /\ branches = <<>> /\ visited_edges = {} /\ vi = 0 /\ nbi = 0
    /\ stack = <<>> /\ paths = <<>>

NoGeo == features = <<>> /\ bkt_i = 0

\* routes given to split_routes_for_agents: a single point (fewer than 2
\* points) or a segment of length 0..MaxLen
SplitPool == {<<<<0, 0>>>>} \cup {<<<<0, 0>>, <<l, 0>>>> : l \in 0..MaxLen}

InitSplit ==
    /\ pc = "split_call"
    /\ routes \in SeqsUpTo(SplitPool, MaxRoutes)
    /\ n_agents \in (-1)..MaxAgents
    /\ lengths = <<>> /\ order = <<>> /\ buckets = <<>> /\ bucket_len = <<>>
    /\ pos = 0 /\ drone_routes = <<>>
    /\ NoJoin /\ NoGraph /\ NoBranch /\ NoGeo

NextSplit == SplitEnter \/ SplitPlace \/ SplitReturn

SpecSplit == InitSplit /\ [][NextSplit]_vars

\* build_drone_routes_geojson(split_routes_for_agents(routes, n_agents)):
\* the routes of SplitPool and the route without any point
InitGeo ==
    /\ pc = "split_call"
    /\ routes \in SeqsUpTo(SplitPool \cup {<<>>}, MaxGeoRoutes)
    /\ n_agents \in (-1)..MaxAgents
    /\ lengths = <<>> /\ order = <<>> /\ buckets = <<>> /\ bucket_len = <<>>
    /\ pos = 0 /\ drone_routes = <<>>
    /\ NoJoin /\ NoGraph /\ NoBranch /\ NoGeo

NextGeo == NextSplit \/ GeoEnter \/ GeoBucket \/ GeoReturn

SpecGeo == InitGeo /\ [][NextGeo]_vars

\* routes given to join_routes_for_agent: up to MaxPts points out of JoinPts
JoinPts == {<<0, 0>>, <<1, 0>>}

InitJoin ==
    /\ pc = "join_loop"
    /\ route_list \in SeqsUpTo(SeqsUpTo(JoinPts, MaxPts), MaxSegs)
    /\ coords = <<>>
    /\ seg_i = 1
    /\ NoSplit /\ NoGraph /\ NoBranch /\ NoGeo

NextJoin == JoinStep \/ JoinReturn

SpecJoin == InitJoin /\ [][NextJoin]_vars

\* every binary array of h rows and w columns
ArraysOf(h, w) == {Skel(h, w, on) : on \in SUBSET ((0..(h - 1)) \X (0..(w - 1)))}

\* every binary array of at most n cells
ArraysUpTo(n) ==
    UNION {IF h * w <= n THEN ArraysOf(h, w) ELSE {} : h \in 1..n, w \in 1..n}

\* the array of h rows and w columns with exactly its 4 corner cells set
CornerSkel(h, w) == Skel(h, w, {<<0, 0>>, <<0, w - 1>>, <<h - 1, 0>>, <<h - 1, w - 1>>})

CornerSkels == {CornerSkel(h, w) : h \in 1..MaxCornerDim, w \in 1..MaxCornerDim}

\* a T: a straight bar of TBarLen pixels along a row and a perpendicular
\* arm of arm pixels at column col, below the bar (up = FALSE) or above it
TSkel(arm, col, up) ==
    LET barRow == IF up THEN arm ELSE 0
        armRows == IF up THEN 0..(arm - 1) ELSE 1..arm
    IN Skel(arm + 1, TBarLen,
            {<<barRow, x>> : x \in 0..(TBarLen - 1)} \cup {<<y, col>> : y \in armRows})

\* the middle of the bar: the pixel at TBarLen / 2 and, for a bar of even
\* length, the one before it
TMidCols == {(TBarLen - 1) \div 2, TBarLen \div 2}

TSkels ==
    {TSkel(arm, col, up) : arm \in {TArmLong, TArmShort}, col \in TMidCols, up \in BOOLEAN}

\* a bar of ForkBarLen pixels along row 0, one pixel of stem below its middle
\* and, below the stem, a pixel with one more pixel on either side
ForkSkel ==
    LET c == ForkBarLen \div 2
    IN Skel(3, ForkBarLen,
            {<<0, x>> : x \in 0..(ForkBarLen - 1)}
                \cup {<<1, c>>, <<2, c - 1>>, <<2, c>>, <<2, c + 1>>})

\* a bar of ForkBarLen pixels along row 0 and, below its middle, a block of
\* 2 by 2 pixels: a cycle off the bar under 4-connectivity
LoopSkel ==
    LET c == ForkBarLen \div 2
    IN Skel(3, ForkBarLen,
            {<<0, x>> : x \in 0..(ForkBarLen - 1)}
                \cup {<<1, c>>, <<1, c + 1>>, <<2, c>>, <<2, c + 1>>})

InitGraph ==
    /\ pc = "graph_call"
    /\ skel \in ArraysUpTo(MaxCells) \cup CornerSkels \cup TSkels \cup {ForkSkel, LoopSkel}
    /\ connectivity \in {4, 8}
    /\ min_len \in {SmallMinLen, DefaultMinLen}
    /\ mask = Skel(0, 0, {}) /\ G = EmptyGraph /\ gi = 0 /\ NoTrunk /\ trunk = <<>>
    /\ NoSplit /\ NoJoin /\ NoBranch /\ NoGeo

NextGraph ==
    \/ GraphEnter \/ GraphAddEdges \/ GraphReturn
    \/ TrunkEnter \/ SweepLevel \/ SweepPath \/ TrunkReturn
    \/ BranchEnter \/ BranchNeighbor \/ BranchNextNode \/ BranchReturn
    \/ DfsStep \/ DfsReturn

SpecGraph == InitGraph /\ [][NextGraph]_vars

\* the same calls on the arrays of at most MaxTermCells cells and on the
\* forked and the looped skeleton
InitTerm ==
    /\ InitGraph
    /\ skel \in ArraysUpTo(MaxTermCells) \cup {ForkSkel, LoopSkel}

\* the steps of extract_branches (lines 141-166)
ExtractBranches ==
    \/ BranchEnter \/ BranchNeighbor \/ BranchNextNode \/ BranchReturn
    \/ DfsStep \/ DfsReturn

\* the call of extract_branches runs on: the interpreter takes its next step
\* as long as there is one (a single thread, no blocking call in lines 141-166)
FairSpecTerm == InitTerm /\ [][NextGraph]_vars /\ WF_vars(ExtractBranches)

\* lf_runner: skeleton_to_graph(skel) and extract_branches(G, trunk) with
\* their defaults; drone_no is any agent count
InitPipe ==
    /\ pc = "skeletonize"
    /\ mask \in ArraysUpTo(MaxMaskCells)
    /\ n_agents \in (-1)..MaxAgents
    /\ skel = Skel(0, 0, {}) /\ connectivity = 8 /\ G = EmptyGraph /\ gi = 0 /\ NoTrunk
    /\ trunk = <<>> /\ min_len = DefaultMinLen
    /\ routes = <<>> /\ lengths = <<>> /\ order = <<>>
    /\ buckets = <<>> /\ bucket_len = <<>> /\ pos = 0 /\ drone_routes = <<>>
    /\ NoJoin /\ NoBranch /\ NoGeo

NextPipe ==
    \/ Skeletonize \/ NextGraph \/ ToRoutes
    \/ NextSplit
    \/ GeoEnter \/ GeoBucket \/ GeoReturn

SpecPipe == InitPipe /\ [][NextPipe]_vars

-----------------------------------------------------------------------------
(* Claims about split_routes_for_agents (SpecSplit) *)

\* the call returned from the loop, not from the early return
SplitRan == pc = "split_done" /\ routes # <<>> /\ n_agents > 0

\* total length of the routes of a bucket
BucketTotal(b) == SumSeq([i \in 1..Len(b) |-> RouteLength(routes[b[i]])])

GreedyMax == MaxOf({BucketTotal(drone_routes[k]) : k \in 1..Len(drone_routes)})

\* every vector of bucket totals some assignment of the first i routes to m
\* buckets gives
RECURSIVE Loads(_, _)
Loads(i, m) ==
    IF i = 0 THEN {[k \in 1..m |-> 0]}
    ELSE {[l EXCEPT ![k] = @ + RouteLength(routes[i])] : l \in Loads(i - 1, m), k \in 1..m}

\* the smallest possible largest bucket total over all assignments to m buckets
OptMax(m) == MinOf({MaxOf(Range(l)) : l \in Loads(Len(routes), m)})

MinInt(a, b) == IF a <= b THEN a ELSE b

\* C1: the largest bucket total of the returned assignment is at most 4/3
\* times the smallest possible largest bucket total over all assignments of
\* the same routes to m = min(n_agents, len(routes)) buckets.
C1_LptBound ==
    SplitRan => 3 * GreedyMax <= 4 * OptMax(MinInt(n_agents, Len(routes)))

\* C1 witness: a returned assignment that is strictly worse than the optimum
C1_Witness ==
    SplitRan /\ GreedyMax > OptMax(MinInt(n_agents, Len(routes)))

\* how often route index i occurs in the returned buckets
Occurrences(i) ==
    SumSeq([k \in 1..Len(drone_routes) |->
        Cardinality({j \in 1..Len(drone_routes[k]) : drone_routes[k][j] = i})])

\* C2: the call returns an empty assignment when routes is empty or
\* n_agents <= 0; otherwise it returns exactly min(n_agents, len(routes))
\* buckets, every input route is in exactly one bucket exactly once, and a
\* bucket holds input routes only.
C2_Partition ==
    pc = "split_done" =>
        IF routes = <<>> \/ n_agents <= 0
        THEN drone_routes = <<>>
        ELSE /\ Len(drone_routes) = MinInt(n_agents, Len(routes))
             /\ \A i \in 1..Len(routes) : Occurrences(i) = 1
             /\ \A k \in 1..Len(drone_routes) :
                    Range(drone_routes[k]) \subseteq 1..Len(routes)

\* C2 witness: more routes than agents, two agents, a bucket with two routes
C2_Witness ==
    /\ SplitRan /\ n_agents = 2 /\ Len(routes) > 2
    /\ \E k \in 1..Len(drone_routes) : Len(drone_routes[k]) >= 2

\* running totals agree with the bucket contents, and order lists every
\* route once by non-increasing length
C3_State ==
    pc = "split_loop" =>
        /\ \A k \in 1..Len(buckets) : bucket_len[k] = BucketTotal(buckets[k])
        /\ Range(order) = 1..Len(routes) /\ Len(order) = Len(routes)
        /\ \A i \in 1..Len(order) : \A j \in i..Len(order) :
               RouteLength(routes[order[i]]) >= RouteLength(routes[order[j]])

\* an iteration of the loop places the next route of order in the
\* lowest-index bucket among those of smallest running total
C3_Step ==
    (pc = "split_loop" /\ pos' = pos + 1) =>
        \E k \in 1..Len(buckets) :
            /\ \A j \in 1..Len(buckets) :
                   bucket_len[k] <= bucket_len[j] /\ (j < k => bucket_len[j] > bucket_len[k])
            /\ buckets' = [buckets EXCEPT ![k] = Append(@, order[pos])]
            /\ bucket_len' = [bucket_len EXCEPT ![k] = @ + RouteLength(routes[order[pos]])]

\* C3: routes are processed in non-increasing length order; each is placed
\* in the bucket whose running total is smallest, the lowest index winning
\* ties; after every step each running total is the sum of the lengths of
\* the routes placed in that bucket so far.
C3_Greedy == [](C3_State) /\ [][C3_Step]_vars

\* C3 witness: two buckets tie for the smallest total, which is not 0, when
\* a further route is about to be placed
C3_Witness ==
    /\ pc = "split_loop" /\ pos > 2 /\ pos <= Len(order)
    /\ Len(bucket_len) = 2 /\ bucket_len[1] = bucket_len[2] /\ bucket_len[1] > 0

-----------------------------------------------------------------------------
(* Claims about join_routes_for_agent (SpecJoin) *)

\* the routes of route_list that have at least 2 points, in list order
Kept == SelectSeq(route_list, LAMBDA r : Len(r) >= 2)

\* the part of the i-th kept route the claim says is appended
KeptPiece(i) ==
    IF i > 1 /\ Kept[i][1] = Kept[i - 1][Len(Kept[i - 1])]
    THEN Tail(Kept[i])
    ELSE Kept[i]

\* C4: the result is the concatenation, in list order, of the routes with at
\* least 2 points, the first coordinate of a route after the first kept one
\* being omitted exactly when it equals the last coordinate appended so far.
C4_Join ==
    pc = "join_done" => coords = Concat([i \in 1..Len(Kept) |-> KeptPiece(i)])

\* C4 witness: one shared joint was omitted and one connecting point was kept
C4_Witness ==
    /\ pc = "join_done"
    /\ \E i \in 2..Len(Kept) : Kept[i][1] = Kept[i - 1][Len(Kept[i - 1])]
    /\ \E i \in 2..Len(Kept) : Kept[i][1] # Kept[i - 1][Len(Kept[i - 1])]

-----------------------------------------------------------------------------
(* Claims about the stages as lf_runner composes them (SpecPipe) *)

\* C5: for an all-zero mask and any agent count, positive, zero or negative,
\* the pipeline graph -> trunk -> branches -> routes -> split -> geojson ends
\* with a feature collection that has no features.
C5_NoFeatures ==
    (pc = "geojson_done" /\ mask.on = {}) => features = <<>>

\* C5 witness: an all-zero mask went through the whole pipeline with a
\* positive agent count, and the one bucket was looked at
C5_Witness ==
    /\ pc = "geojson_done" /\ mask.on = {}
    /\ n_agents >= 1 /\ bkt_i > 1 /\ features = <<>>

\* C6 as stated: for an all-background mask the graph has no nodes, the
\* trunk is the empty path, there are no branches, and
\* split_routes_for_agents returns an assignment with zero buckets.
C6_ZeroBuckets ==
    mask.on = {} =>
        /\ pc = "trunk_call" => (G.nodes = <<>> /\ EdgeSet(G) = {})
        /\ pc = "branch_call" => trunk = <<>>
        /\ pc = "branch_done" => branches = <<>>
        /\ pc = "split_done" => drone_routes = <<>>

-----------------------------------------------------------------------------
(* Claims about the graph, the trunk and the branches (SpecGraph) *)

\* the nodes reachable from the nodes of r
RECURSIVE ReachFrom(_, _)
ReachFrom(g, r) ==
    LET more == r \cup UNION {Range(g.adj[v]) : v \in r}
    IN IF more = r THEN r ELSE ReachFrom(g, more)

\* a single simple path without branching: a tree without a node of degree 3
IsSimplePath(g) ==
    /\ g.nodes # <<>>
    /\ \A v \in Range(g.nodes) : Degree(g, v) <= 2
    /\ Cardinality(EdgeSet(g)) = Len(g.nodes) - 1
    /\ ReachFrom(g, {g.nodes[1]}) = Range(g.nodes)

\* C7 as stated: for a graph that is a single simple path of k pixel nodes,
\* whatever k and the layout, find_trunk_longest_path returns the full path
\* of all k nodes.
C7_FullPath ==
    (pc = "branch_call" /\ IsSimplePath(G)) =>
        (Len(trunk) = Len(G.nodes) /\ Range(trunk) = Range(G.nodes))

\* the bar pixel the arm of the T is attached to
Junction(arm, col, up) == <<IF up THEN arm ELSE 0, col>>

\* a and b are distinct pixels that touch by a side or by a corner
Touching(a, b) ==
    /\ a # b
    /\ a[1] - b[1] \in {-1, 0, 1}
    /\ a[2] - b[2] \in {-1, 0, 1}

\* extract_branches returned for the T of the given arm with min_len = 15
TDone(arm, col, up) ==
    /\ pc = "branch_done"
    /\ min_len = DefaultMinLen
    /\ skel = TSkel(arm, col, up)

\* C8: for the T of a bar of 30 pixels and an arm of 20 pixels at the bar's
\* midpoint, with the trunk of find_trunk_longest_path and min_len = 15,
\* extract_branches returns exactly one branch, of at least 15 nodes; its
\* first node is the junction pixel at the midpoint of the bar under
\* 4-connectivity and, under 8-connectivity, a trunk pixel that touches the
\* junction pixel. With an arm of 10 pixels it returns no branch.
C8_TShape ==
    \A col \in TMidCols, up \in BOOLEAN :
        /\ TDone(TArmLong, col, up) =>
              /\ Len(branches) = 1
              /\ Len(branches[1]) >= DefaultMinLen
              /\ connectivity = 4 => branches[1][1] = Junction(TArmLong, col, up)
              /\ connectivity = 8 =>
                    /\ branches[1][1] \in TrunkSet
                    /\ Touching(branches[1][1], Junction(TArmLong, col, up))
        /\ TDone(TArmShort, col, up) => branches = <<>>

\* C8 witness: the one branch of a T with the long arm, under 8-connectivity,
\* does not start at the junction pixel
C8_Witness ==
    \E col \in TMidCols, up \in BOOLEAN :
        /\ TDone(TArmLong, col, up)
        /\ connectivity = 8
        /\ Len(branches) = 1
        /\ branches[1][1] # Junction(TArmLong, col, up)

\* C8 as stated: the first node of the one branch is the midpoint of the
\* bar, whatever the connectivity
C8_FirstIsMidpoint ==
    \A col \in TMidCols, up \in BOOLEAN :
        /\ TDone(TArmLong, col, up) =>
              /\ Len(branches) = 1
              /\ Len(branches[1]) >= DefaultMinLen
              /\ branches[1][1] = Junction(TArmLong, col, up)
        /\ TDone(TArmShort, col, up) => branches = <<>>

\* the edge between the i-th node of the b-th returned branch and the next
BranchEdge(b, i) == SortedEdge(branches[b][i], branches[b][i + 1])

\* the places <<b, i>> of the edges of the returned branches
BranchEdgePlaces ==
    UNION {{<<b, i>> : i \in 1..(Len(branches[b]) - 1)} : b \in 1..Len(branches)}

\* C9 as stated: over the edges between consecutive nodes of all returned
\* branches, no edge with an endpoint off the trunk occurs twice, neither in
\* two branches nor twice within one.
C9_NoEdgeTwice ==
    pc = "branch_done" =>
        \A p, q \in BranchEdgePlaces :
            (p # q /\ BranchEdge(p[1], p[2]) = BranchEdge(q[1], q[2])) =>
                (BranchEdge(p[1], p[2])[1] \in TrunkSet /\ BranchEdge(p[1], p[2])[2] \in TrunkSet)

\* skeleton_to_graph returned for the array with exactly its corners set
CornersDone(h, w) ==
    /\ pc = "trunk_call"
    /\ connectivity = 8
    /\ skel = CornerSkel(h, w)

\* C10: for an array of H rows and W columns with exactly the 4 corner cells
\* set, H >= 3 and W >= 3, skeleton_to_graph with 8-connectivity returns a
\* graph of exactly 4 nodes and 0 edges.
C10_Corners ==
    \A h, w \in 3..MaxCornerDim :
        CornersDone(h, w) => (Len(G.nodes) = 4 /\ EdgeSet(G) = {})

\* C10 witness: the graph of the largest such array was built
C10_Witness ==
    /\ CornersDone(MaxCornerDim, MaxCornerDim)
    /\ Len(G.nodes) = 4

\* C10 as stated: the same for every height and width
C10_AllSizes ==
    \A h, w \in 1..MaxCornerDim :
        CornersDone(h, w) => (Len(G.nodes) = 4 /\ EdgeSet(G) = {})

-----------------------------------------------------------------------------
(* Claims about build_drone_routes_geojson after split_routes_for_agents
   (SpecGeo) *)

\* C11: every emitted polyline has at least 2 coordinates, and the drone_id
\* values of the emitted features, in output order, are 1, 2, ..., k without
\* a gap, k being the number of emitted features: a bucket that was dropped
\* is never followed by a bucket that is kept.
C11_SequentialIds ==
    pc \in {"geojson_loop", "geojson_done"} =>
        \A i \in 1..Len(features) :
            /\ Len(features[i].coordinates) >= 2
            /\ features[i].drone_id = i

\* C11 witness: of the buckets of an assignment some were emitted and some
\* were dropped
C11_Witness ==
    /\ pc = "geojson_done"
    /\ Len(features) >= 1
    /\ Len(features) < Len(drone_routes)

-----------------------------------------------------------------------------
(* More claims about the graph, the trunk and the branches (SpecGraph) *)

AbsDiff(a, b) == IF a >= b THEN a - b ELSE b - a

\* a and b are distinct cells that are neighbours under the connectivity:
\* by a side for 4, by a side or a corner otherwise
NeighbourCells(a, b, conn) ==
    /\ a # b
    /\ AbsDiff(a[1], b[1]) <= 1
    /\ AbsDiff(a[2], b[2]) <= 1
    /\ conn = 4 => AbsDiff(a[1], b[1]) + AbsDiff(a[2], b[2]) = 1

\* C12: the graph skeleton_to_graph returns has as its nodes exactly the
\* foreground cells, each once, and as its edges exactly the pairs of
\* distinct foreground cells that are neighbours under the connectivity; no
\* node is its own neighbour and no edge touches a background cell.
C12_GraphOfMask ==
    pc = "trunk_call" =>
        /\ Range(G.nodes) = skel.on
        /\ Len(G.nodes) = Cardinality(skel.on)
        /\ DOMAIN G.adj = skel.on
        /\ \A u \in skel.on :
              /\ Range(G.adj[u]) \subseteq skel.on
              /\ Len(G.adj[u]) = Cardinality(Range(G.adj[u]))
              /\ ~HasEdge(G, u, u)
              /\ \A v \in skel.on :
                    HasEdge(G, u, v) <=> NeighbourCells(u, v, connectivity)

\* C12 witness: a graph under 8-connectivity with an edge across a corner
\* and with two foreground cells that are not neighbours
C12_Witness ==
    /\ pc = "trunk_call"
    /\ connectivity = 8
    /\ \E u, v \in skel.on : HasEdge(G, u, v) /\ u[1] # v[1] /\ u[2] # v[2]
    /\ \E u, v \in skel.on : u # v /\ ~HasEdge(G, u, v)

\* the node on top of the stack is a leaf: it has no off-trunk, non-parent
\* neighbour over an edge that is not yet visited
TopIsLeaf ==
    LET top == stack[Len(stack)]
    IN \A nb \in Range(G.adj[top.node]) :
          \/ nb = top.parent
          \/ nb \in TrunkSet
          \/ SortedEdge(top.node, nb) \in visited_edges

\* the edge e lies on the path p
OnPath(e, p) == \E i \in 1..(Len(p) - 1) : SortedEdge(p[i], p[i + 1]) = e

\* a traversal that reaches a leaf collects the path to it
C13_Step ==
    (pc = "dfs_loop" /\ stack # <<>> /\ TopIsLeaf) =>
        paths' = Append(paths, stack[Len(stack)].path)

\* at the end of a traversal every visited edge between two off-trunk nodes
\* lies on a candidate: one of this traversal or, min_len keeping every
\* candidate, a branch collected before
C13_State ==
    (pc = "dfs_loop" /\ stack = <<>> /\ min_len <= 2) =>
        \A e \in visited_edges :
            (e[1] \notin TrunkSet /\ e[2] \notin TrunkSet) =>
                \/ \E i \in 1..Len(paths) : OnPath(e, paths[i])
                \/ \E i \in 1..Len(branches) : OnPath(e, branches[i])

\* C13 as stated: every time the traversal reaches a leaf the path from nb
\* to it is collected as a candidate, hence every off-trunk edge the
\* traversal marks visited lies on at least one collected candidate.
C13_LeafCollected == [](C13_State) /\ [][C13_Step]_vars

\* C14 as stated: whenever the bridged graph has a node of degree 1, the
\* trunk find_trunk_longest_path returns runs between two dead ends: its
\* first and its last node both have degree 1 in the bridged graph.
C14_BetweenDeadEnds ==
    (pc = "branch_call" /\ Endpoints(tG) # <<>>) =>
        /\ trunk # <<>>
        /\ Degree(tG, trunk[1]) = 1
        /\ Degree(tG, trunk[Len(trunk)]) = 1

\* C15: every branch extract_branches returns is a simple path of the
\* graph it was given: consecutive nodes are adjacent, no node is repeated,
\* its first node is a trunk node and every other node lies off the trunk.
C15_SimpleBranches ==
    \A b \in 1..Len(branches) :
        LET p == branches[b]
        IN /\ Len(p) >= 2
           /\ Range(p) \subseteq Range(G.nodes)
           /\ \A i \in 1..(Len(p) - 1) : HasEdge(G, p[i], p[i + 1])
           /\ Cardinality(Range(p)) = Len(p)
           /\ p[1] \in TrunkSet
           /\ \A i \in 2..Len(p) : p[i] \notin TrunkSet

\* C15 witness: extract_branches returned two branches, one of them with
\* more than one node off the trunk
C15_Witness ==
    /\ pc = "branch_done"
    /\ Len(branches) >= 2
    /\ \E b \in 1..Len(branches) : Len(branches[b]) >= 3

-----------------------------------------------------------------------------
(* Termination of extract_branches (FairSpecTerm) *)

\* the entries a step pushes on the work stack
Pushed ==
    IF pc = "dfs_loop" /\ stack # <<>> THEN Len(stack') - (Len(stack) - 1)
    ELSE IF pc = "branch_loop" /\ pc' = "dfs_loop" THEN Len(stack')
    ELSE 0

\* no undirected edge is in the visited-edge set twice, every visited edge
\* is an edge of the graph, and the entries of the stack that have a parent
\* came over visited edges, no two over the same
C16_State ==
    /\ \A e \in visited_edges : HasEdge(G, e[1], e[2])
    /\ \A e, f \in visited_edges : e # f => {e[1], e[2]} # {f[1], f[2]}
    /\ \A i \in 1..Len(stack) :
          stack[i].parent # NoNode =>
              /\ \E e \in visited_edges : {e[1], e[2]} = {stack[i].parent, stack[i].node}
              /\ \A j \in 1..Len(stack) :
                    {stack[j].parent, stack[j].node} = {stack[i].parent, stack[i].node} => j = i

\* within the call the visited-edge set only grows, and a step pushes as
\* many entries as it adds edges to the set
C16_Step ==
    pc \in {"branch_loop", "dfs_loop"} =>
        /\ visited_edges \subseteq visited_edges'
        /\ Pushed = Cardinality(visited_edges' \ visited_edges)

\* C16: extract_branches terminates, and each undirected edge is added to
\* the visited-edge set, and so pushed on the work stack, at most once over
\* the whole call, across all trunk attachment points.
C16_Terminates ==
    /\ [](C16_State)
    /\ [][C16_Step]_vars
    /\ (pc = "branch_call") ~> (pc = "branch_done")

\* C16 witness: the call ended on a graph with a cycle off the trunk, after
\* traversals from two attachment points
C16_Witness ==
    /\ pc = "branch_done"
    /\ skel = LoopSkel
    /\ connectivity = 4
    /\ Cardinality(visited_edges) > 4

====
